---- MODULE Spec2Model ----
(***************************************************************************)
(* Model of flash-dump.py: main() reads the NAND header of an image,       *)
(* detects the image flavor, looks for the SMC and the keyvault, walks the *)
(* bootloader chain (BL2..BL5) and prints the discovered sections.         *)
(*                                                                         *)
(* The image is a sequence of cells (bytes).  The classes imported from    *)
(* nand, smc, bootloader and common are not part of flash-dump.py; their   *)
(* parsing is modelled over a scaled-down layout:                          *)
(*   NAND header  : <<magic, copyright, smcoffset, smclength, kvoffset,    *)
(*                    bl2offset>>                                          *)
(*   keyvault hdr : <<tag, length>>                                        *)
(*   bootloader   : <<name[0], name[1], length>> followed by the body      *)
(* A local variable of main that has not been assigned is the record       *)
(* Unbound; reading it raises UnboundLocalError, as Python does.           *)
(***************************************************************************)
EXTENDS Integers, Sequences, FiniteSets, TLC

VARIABLES argv, image, pc, exc, excvar, nandheader, filesize, imagetype,
          smc, keyvault, bl2header, bl3header, bl4header, bl5header,
          bl2, bl3, bl4, bl5, nandsections, calls, stdout, written

vars == <<argv, image, pc, exc, excvar, nandheader, filesize, imagetype,
          smc, keyvault, bl2header, bl3header, bl4header, bl5header,
          bl2, bl3, bl4, bl5, nandsections, calls, stdout, written>>

-----------------------------------------------------------------------------
(* Bounds of the model *)

\* longest chain region of a generated image, in records
MaxStages == 4

-----------------------------------------------------------------------------
(* Layout constants of the imported classes (scaled) *)

NAND_HEADER_SIZE == 6
KV_HEADER_SIZE == 2
HEADER_SIZE == 3
MAGIC == 255
COPYRIGHT == 169
SmcBase == NAND_HEADER_SIZE
KvBase == SmcBase + 1
ChainBase == KvBase + KV_HEADER_SIZE
\* large enough for the longest generated chain and its zero padding
SHADOWBOOT_SIZE == ChainBase + (HEADER_SIZE + 1) * MaxStages + HEADER_SIZE - 1

ChrB == 66
ChrC == 67
ChrS == 83

ImageType == {"Retail", "Devkit", "Shadowboot"}

ZeroKey == <<0>>
SECRET_1BL == <<1>>

Unbound == [bound |-> FALSE]

-----------------------------------------------------------------------------
(* File access and the imported parsers *)

Min(a, b) == IF a < b THEN a ELSE b

\* image.seek(off, 0); image.read(n): short (or empty) at end of file
Read(img, off, n) == SubSeq(img, off + 1, Min(off + n, Len(img)))

\* all(b == 0 for b in data): true of the empty read as well
AllZero(data) == \A i \in 1..Len(data) : data[i] = 0

NANDHeader(data) ==
    [bound |-> TRUE, magic |-> data[1], copyright |-> data[2],
     smcoffset |-> data[3], smclength |-> data[4],
     kvoffset |-> data[5], bl2offset |-> data[6]]

validateMagic(h) == h.magic = MAGIC

validateCopyright(h) == h.copyright = COPYRIGHT

KeyvaultHeader(data, off) ==
    [bound |-> TRUE, length |-> data[2], offset |-> off]

BootloaderHeader(data, off) ==
    [bound |-> TRUE, name |-> <<data[1], data[2]>>, length |-> data[3],
     offset |-> off]

\* BL2(data, header) / Bootloader(data, header): a fresh, unkeyed stage
Bootloader(data, header) ==
    [bound |-> TRUE, header |-> header, data |-> data, keyin |-> <<>>,
     key |-> <<>>, decrypted |-> FALSE]

\* key derivation: the key depends on the input key and on the stage header
updateKey(bl, previouskey) ==
    [bl EXCEPT !.keyin = previouskey,
               !.key = previouskey \o <<bl.header.name[1]>>]

decrypt(bl) == [bl EXCEPT !.decrypted = TRUE]

-----------------------------------------------------------------------------
(* The images and command lines the model runs main on *)

\* chain records: a retail 2BL, a devkit 2BL, a record named "BB",
\* and a record whose header is not null but whose declared length (1)
\* covers only zero bytes
PieceCB == <<ChrC, ChrB, 4, 1>>
PieceSB == <<ChrS, ChrB, 4, 1>>
PieceBB == <<ChrB, ChrB, 4, 1>>
PieceZ1 == <<0, 0, 1>>
Pieces == {PieceCB, PieceSB, PieceBB, PieceZ1}

\* the code tests the name of the first record only: the records after it
\* are drawn from a devkit record and the record with null data
TailPieces == {PieceSB, PieceZ1}

Chains ==
    {<<>>} \cup
    UNION {{<<p>> \o t : p \in Pieces, t \in [1..n -> TailPieces]} :
              n \in 0..(MaxStages - 1)}

RECURSIVE Flatten(_)
Flatten(ch) == IF Len(ch) = 0 THEN <<>> ELSE Head(ch) \o Flatten(Tail(ch))

Zeros(n) == [i \in 1..n |-> 0]

\* <<magic, copyright>>
HeaderTags == {<<MAGIC, COPYRIGHT>>, <<MAGIC, 1>>, <<1, COPYRIGHT>>}

\* <<smcoffset, smclength, SMC region>>
SmcChoices == {<<0, 1, 1>>, <<SmcBase, 1, 0>>, <<SmcBase, 1, 1>>}

\* <<kvoffset, keyvault header region>>
KvChoices == {<<0, <<1, 2>>>>, <<KvBase, <<0, 0>>>>, <<KvBase, <<0, 1>>>>,
              <<KvBase, <<1, 2>>>>}

Bl2Offsets == {0, ChainBase}

FileSizes == {SHADOWBOOT_SIZE, SHADOWBOOT_SIZE + 1}

MakeImage(tags, s, k, b, ch, size) ==
    LET body == <<tags[1], tags[2], s[1], s[2], k[1], b, s[3]>> \o k[2]
                    \o Flatten(ch)
    IN  body \o Zeros(size - Len(body))

Images ==
    {MakeImage(tags, s, k, b, ch, size) :
        tags \in HeaderTags, s \in SmcChoices, k \in KvChoices,
        b \in Bl2Offsets, ch \in Chains, size \in FileSizes}

\* sys.argv: no image, a plain dump, -bs with every required section,
\* -bs without the stage-5 section
RequiredSections == {"smc", "sb", "sc", "sd", "se"}

Argvs == {<<"flash-dump.py">>,
          <<"flash-dump.py", "image.bin">>,
          <<"flash-dump.py", "image.bin", "-bs", "smc", "sb", "sc", "sd", "se">>,
          <<"flash-dump.py", "image.bin", "-bs", "smc", "sb", "sc", "sd">>}

-----------------------------------------------------------------------------
(* Decisions of main *)

\* line 103
Target(av) == IF Len(av) > 1 THEN av[2] ELSE ""

\* the negation of line 119 dropped
MagicRejectedMut(h) == validateMagic(h)

\* line 119
MagicRejected(h) == ~validateMagic(h)

\* failprint (from common): reports the failure and ends the program
failprintAborts == TRUE

\* the size test of line 132 made strict
DetectImageTypeMut(size, img, h) ==
    IF size < SHADOWBOOT_SIZE THEN "Shadowboot"
    ELSE LET bl2name == Read(img, h.bl2offset, 2)
         IN  IF bl2name = <<ChrC, ChrB>> THEN "Retail"
             ELSE IF bl2name = <<ChrS, ChrB>> THEN "Devkit"
             ELSE "Unbound"

\* lines 131-144: imagetype is left unassigned when neither name matches
DetectImageType(size, img, h) ==
    IF size <= SHADOWBOOT_SIZE THEN "Shadowboot"
    ELSE LET bl2name == Read(img, h.bl2offset, 2)
         IN  IF bl2name = <<ChrC, ChrB>> THEN "Retail"
             ELSE IF bl2name = <<ChrS, ChrB>> THEN "Devkit"
             ELSE "Unbound"

\* the null test of line 181 left out
FindSMCMut(img, h) ==
    IF h.smcoffset = 0 THEN Unbound
    ELSE [bound |-> TRUE, offset |-> h.smcoffset,
          data |-> Read(img, h.smcoffset, h.smclength)]

\* lines 177-189: the SMC object, when there is one
FindSMC(img, h) ==
    IF h.smcoffset = 0 THEN Unbound
    ELSE LET smcdata == Read(img, h.smcoffset, h.smclength)
         IN  IF ~AllZero(smcdata)
             THEN [bound |-> TRUE, offset |-> h.smcoffset, data |-> smcdata]
             ELSE Unbound

\* lines 183-184: the append of the SMC is commented out
SmcSections(s) == <<>>

\* lines 194-213: the keyvault object, when there is one
FindKeyvault(img, h) ==
    IF h.kvoffset = 0 THEN Unbound
    ELSE LET keyvaultheaderdata == Read(img, h.kvoffset, KV_HEADER_SIZE)
         IN  IF AllZero(keyvaultheaderdata) THEN Unbound
             ELSE LET keyvaultheader ==
                          KeyvaultHeader(keyvaultheaderdata, h.kvoffset)
                      keyvaultdata ==
                          Read(img, h.kvoffset, keyvaultheader.length)
                  IN  IF AllZero(keyvaultdata) THEN Unbound
                      ELSE [bound |-> TRUE, header |-> keyvaultheader,
                            offset |-> h.kvoffset, data |-> keyvaultdata]

\* the next stage looked for right after the header of the previous one
NextOffsetMut(h) == h.offset + HEADER_SIZE

\* lines 246, 278, 327: where the next stage is looked for
NextOffset(h) == h.offset + h.length

\* line 262, the call that is commented out: BL3 keyed from BL2's key
Bl3KeyArgMut(prev) == prev.key

\* line 264: the key handed to bl3.updateKey
Bl3KeyArg(prev) == ZeroKey

\* lines 294, 343: the key handed to bl4.updateKey and bl5.updateKey
ChainKeyArg(prev) == prev.key

\* lines 233-234, 264-265, 294-295, 343-344: key the stage, then decrypt it
KeyAndDecrypt(bl, k) == decrypt(updateKey(bl, k))

KeyAndDecryptCalls(id) == <<<<id, "updateKey">>, <<id, "decrypt">>>>

\* The block of one later stage (lines 245-274 for BL3, repeated at 277-304
\* for BL4 and at 326-353 for BL5).  prevheader and prev are the variables
\* of the preceding stage, usekey(prev) the argument of updateKey.
\* raised names the unassigned variable the block reads, "" when none.
NoStage == [header |-> Unbound, obj |-> Unbound, appended |-> FALSE,
            calls |-> <<>>, raised |-> ""]

StageBlock(img, prevheader, prev, zerokey, id, prevname) ==
    IF ~prevheader.bound
    THEN [NoStage EXCEPT !.raised = prevname \o "header"]
    ELSE
    LET offset == NextOffset(prevheader)
        headerdata == Read(img, offset, HEADER_SIZE)
    IN  IF AllZero(headerdata) THEN NoStage
        ELSE
        LET header == BootloaderHeader(headerdata, offset)
            data == Read(img, offset, header.length)
        IN  IF AllZero(data) THEN [NoStage EXCEPT !.header = header]
            ELSE
            LET bl == Bootloader(data, header)
            IN  IF ~prev.bound
                THEN [header |-> header, obj |-> bl, appended |-> TRUE,
                      calls |-> <<>>, raised |-> prevname]
                ELSE [header |-> header,
                      obj |-> KeyAndDecrypt(bl,
                                 IF zerokey THEN Bl3KeyArg(prev)
                                 ELSE ChainKeyArg(prev)),
                      appended |-> TRUE,
                      calls |-> KeyAndDecryptCalls(id), raised |-> ""]

\* the retail test of line 314 left out: every flavor looks for SE
Stage5BranchMut(t) ==
    IF t = "Unbound" THEN "raise" ELSE "se"

\* lines 314-324: which branch the stage-5 block takes
Stage5Branch(t) ==
    IF t = "Unbound" THEN "raise"
    ELSE IF t = "Retail" THEN "retail" ELSE "se"

-----------------------------------------------------------------------------
(* The run of main *)

Init ==
    /\ argv \in Argvs
    /\ image \in Images
    /\ pc = "start"
    /\ exc = "none"
    /\ excvar = ""
    /\ nandheader = Unbound
    /\ filesize = 0
    /\ imagetype = "Unbound"
    /\ smc = Unbound
    /\ keyvault = Unbound
    /\ bl2header = Unbound /\ bl3header = Unbound
    /\ bl4header = Unbound /\ bl5header = Unbound
    /\ bl2 = Unbound /\ bl3 = Unbound /\ bl4 = Unbound /\ bl5 = Unbound
    /\ nandsections = <<>>
    /\ calls = <<>>
    /\ stdout = <<>>
    /\ written = <<>>

\* lines 103-122: usage check, header read, magic and copyright checks
ParseHeader ==
    /\ pc = "start"
    /\ IF Target(argv) = ""
       THEN /\ pc' = "exited"
            /\ exc' = "SystemExit"
            /\ stdout' = Append(stdout, "usage")
            /\ UNCHANGED nandheader
       ELSE LET h == NANDHeader(Read(image, 0, NAND_HEADER_SIZE))
            IN  /\ nandheader' = h
                /\ IF MagicRejected(h) /\ failprintAborts
                   THEN /\ pc' = "failed"
                        /\ exc' = "SystemExit"
                        /\ stdout' = Append(stdout, "fail:magic")
                   ELSE /\ pc' = "detect"
                        /\ exc' = exc
                        /\ stdout' = IF validateCopyright(h) THEN stdout
                                     ELSE Append(stdout, "warn:copyright")
    /\ UNCHANGED <<argv, image, excvar, filesize, imagetype, smc, keyvault,
                   bl2header, bl3header, bl4header, bl5header,
                   bl2, bl3, bl4, bl5, nandsections, calls, written>>

\* lines 130-144
DetectType ==
    /\ pc = "detect"
    /\ filesize' = Len(image)
    /\ imagetype' = DetectImageType(Len(image), image, nandheader)
    /\ pc' = "smc"
    /\ UNCHANGED <<argv, image, exc, excvar, nandheader, smc, keyvault,
                   bl2header, bl3header, bl4header, bl5header,
                   bl2, bl3, bl4, bl5, nandsections, calls, stdout, written>>

\* lines 174-189
CheckSMC ==
    /\ pc = "smc"
    /\ smc' = FindSMC(image, nandheader)
    /\ nandsections' = SmcSections(smc')
    /\ pc' = "kv"
    /\ UNCHANGED <<argv, image, exc, excvar, nandheader, filesize, imagetype,
                   keyvault, bl2header, bl3header, bl4header, bl5header,
                   bl2, bl3, bl4, bl5, calls, stdout, written>>

\* lines 192-213
CheckKeyvault ==
    /\ pc = "kv"
    /\ keyvault' = FindKeyvault(image, nandheader)
    /\ nandsections' = IF keyvault'.bound
                       THEN Append(nandsections, "keyvault")
                       ELSE nandsections
    /\ pc' = "bl2"
    /\ UNCHANGED <<argv, image, exc, excvar, nandheader, filesize, imagetype,
                   smc, bl2header, bl3header, bl4header, bl5header,
                   bl2, bl3, bl4, bl5, calls, stdout, written>>

\* lines 215-241
CheckBL2 ==
    /\ pc = "bl2"
    /\ IF nandheader.bl2offset = 0
       THEN UNCHANGED <<bl2header, bl2, nandsections, calls>>
       ELSE
       LET bl2offset == nandheader.bl2offset
           bl2headerdata == Read(image, bl2offset, HEADER_SIZE)
       IN  IF AllZero(bl2headerdata)
           THEN UNCHANGED <<bl2header, bl2, nandsections, calls>>
           ELSE
           LET header == BootloaderHeader(bl2headerdata, bl2offset)
               bl2data == Read(image, bl2offset, header.length)
           IN  /\ bl2header' = header
               /\ IF AllZero(bl2data)
                  THEN UNCHANGED <<bl2, nandsections, calls>>
                  ELSE /\ bl2' = KeyAndDecrypt(Bootloader(bl2data, header),
                                               SECRET_1BL)
                       /\ nandsections' = Append(nandsections, "bl2")
                       /\ calls' = calls \o KeyAndDecryptCalls("bl2")
    /\ pc' = "bl3"
    /\ UNCHANGED <<argv, image, exc, excvar, nandheader, filesize, imagetype,
                   smc, keyvault, bl3header, bl4header, bl5header,
                   bl3, bl4, bl5, stdout, written>>

\* lines 243-274
CheckBL3 ==
    /\ pc = "bl3"
    /\ LET r == StageBlock(image, bl2header, bl2, TRUE, "bl3", "bl2")
       IN  /\ bl3header' = r.header
           /\ bl3' = r.obj
           /\ nandsections' = IF r.appended THEN Append(nandsections, "bl3")
                              ELSE nandsections
           /\ calls' = calls \o r.calls
           /\ IF r.raised # ""
              THEN pc' = "crashed" /\ exc' = "UnboundLocalError"
                   /\ excvar' = r.raised
              ELSE pc' = "bl4" /\ UNCHANGED <<exc, excvar>>
    /\ UNCHANGED <<argv, image, nandheader, filesize, imagetype, smc,
                   keyvault, bl2header, bl4header, bl5header, bl2, bl4, bl5,
                   stdout, written>>

\* lines 276-304
CheckBL4 ==
    /\ pc = "bl4"
    /\ LET r == StageBlock(image, bl3header, bl3, FALSE, "bl4", "bl3")
       IN  /\ bl4header' = r.header
           /\ bl4' = r.obj
           /\ nandsections' = IF r.appended THEN Append(nandsections, "bl4")
                              ELSE nandsections
           /\ calls' = calls \o r.calls
           /\ IF r.raised # ""
              THEN pc' = "crashed" /\ exc' = "UnboundLocalError"
                   /\ excvar' = r.raised
              ELSE pc' = "bl5" /\ UNCHANGED <<exc, excvar>>
    /\ UNCHANGED <<argv, image, nandheader, filesize, imagetype, smc,
                   keyvault, bl2header, bl3header, bl5header, bl2, bl3, bl5,
                   stdout, written>>

\* lines 312-353
CheckBL5 ==
    /\ pc = "bl5"
    /\ LET branch == Stage5Branch(imagetype)
           r == IF branch = "se"
                THEN StageBlock(image, bl4header, bl4, FALSE, "bl5", "bl4")
                ELSE IF branch = "raise"
                THEN [NoStage EXCEPT !.raised = "imagetype"]
                ELSE NoStage
       IN  /\ bl5header' = r.header
           /\ bl5' = r.obj
           /\ nandsections' = IF r.appended THEN Append(nandsections, "bl5")
                              ELSE nandsections
           /\ calls' = calls \o r.calls
           /\ IF r.raised # ""
              THEN pc' = "crashed" /\ exc' = "UnboundLocalError"
                   /\ excvar' = r.raised
              ELSE pc' = "output" /\ UNCHANGED <<exc, excvar>>
    /\ UNCHANGED <<argv, image, nandheader, filesize, imagetype, smc,
                   keyvault, bl2header, bl3header, bl4header, bl2, bl3, bl4,
                   stdout, written>>

\* lines 378-380
Output ==
    /\ pc = "output"
    /\ stdout' = stdout \o nandsections
    /\ pc' = "done"
    /\ UNCHANGED <<argv, image, exc, excvar, nandheader, filesize, imagetype,
                   smc, keyvault, bl2header, bl3header, bl4header, bl5header,
                   bl2, bl3, bl4, bl5, nandsections, calls, written>>

Next ==
    \/ ParseHeader
    \/ DetectType
    \/ CheckSMC
    \/ CheckKeyvault
    \/ CheckBL2
    \/ CheckBL3
    \/ CheckBL4
    \/ CheckBL5
    \/ Output

Spec == Init /\ [][Next]_vars

Terminal == {"exited", "failed", "crashed", "done"}

-----------------------------------------------------------------------------
(* Properties *)

Range(q) == {q[i] : i \in 1..Len(q)}

SectionIds == {"smc", "keyvault", "bl2", "bl3", "bl4", "bl5"}

IsSection(x) == x \in SectionIds

\* the sections printed by the output loop
Reported == SelectSeq(stdout, IsSection)

HeaderAccepted == nandheader.bound /\ validateMagic(nandheader)

\* the header of the stage after prevheader is absent or all-zero
StageHeaderAbsent(prevheader) ==
    /\ prevheader.bound
    /\ AllZero(Read(image, NextOffset(prevheader), HEADER_SIZE))

Bl2HeaderAbsent ==
    \/ nandheader.bl2offset = 0
    \/ AllZero(Read(image, nandheader.bl2offset, HEADER_SIZE))

\* the chain ends at some stage K of this image
ChainEnds ==
    \/ Bl2HeaderAbsent
    \/ StageHeaderAbsent(bl2header)
    \/ StageHeaderAbsent(bl3header)
    \/ (imagetype \in {"Devkit", "Shadowboot"} /\ StageHeaderAbsent(bl4header))

\* C1: when the header of a stage K is absent or all-zero, or the declared
\* first-stage offset is 0, the run ends without an error and every section
\* discovered before stage K is printed by the output loop.
C1_PartialChainReported ==
    (pc \in Terminal /\ HeaderAccepted /\ ChainEnds)
        => (pc = "done" /\ exc = "none" /\ Reported = nandsections)

\* C2: the first discovered stage lies at the bl2offset of the NAND header,
\* and each discovered stage i+1 lies at stage i's offset plus stage i's
\* header length.
C2_OffsetContiguity ==
    /\ bl2.bound => bl2.header.offset = nandheader.bl2offset
    /\ (bl2.bound /\ bl3.bound)
          => bl3.header.offset = bl2.header.offset + bl2.header.length
    /\ (bl3.bound /\ bl4.bound)
          => bl4.header.offset = bl3.header.offset + bl3.header.length
    /\ (bl4.bound /\ bl5.bound)
          => bl5.header.offset = bl4.header.offset + bl4.header.length

C2_Witness ==
    /\ pc = "done"
    /\ bl2.bound /\ bl3.bound /\ bl4.bound /\ bl5.bound
    /\ nandsections = <<"keyvault", "bl2", "bl3", "bl4", "bl5">>

Classified == pc \in {"smc", "kv", "bl2", "bl3", "bl4", "bl5", "output",
                      "done", "crashed"}

Bl2Name == Read(image, nandheader.bl2offset, 2)

\* C3: an image of at most SHADOWBOOT_SIZE bytes is Shadowboot whatever the
\* bytes at bl2offset are; a larger image is Retail when they are "CB" and
\* Devkit when they are "SB".
C3_FlavorClassification ==
    Classified =>
        /\ Len(image) <= SHADOWBOOT_SIZE => imagetype = "Shadowboot"
        /\ (Len(image) > SHADOWBOOT_SIZE /\ Bl2Name = <<ChrC, ChrB>>)
              => imagetype = "Retail"
        /\ (Len(image) > SHADOWBOOT_SIZE /\ Bl2Name = <<ChrS, ChrB>>)
              => imagetype = "Devkit"

C3_Witness ==
    /\ Classified
    /\ Len(image) = SHADOWBOOT_SIZE
    /\ Bl2Name = <<ChrC, ChrB>>
    /\ imagetype = "Shadowboot"

SmcRegionNull ==
    /\ nandheader.bound
    /\ nandheader.smcoffset # 0
    /\ AllZero(Read(image, nandheader.smcoffset, nandheader.smclength))

\* C5: the SMC step raises nothing and hands over to the keyvault step with
\* an empty section table whether or not the SMC is present, and over an
\* all-zero SMC region at a non-zero offset it creates no SMC object.
C5_NullSmcSkipped ==
    [][pc = "smc" =>
          /\ pc' = "kv"
          /\ exc' = "none"
          /\ nandsections' = <<>>
          /\ UNCHANGED <<image, nandheader, imagetype, keyvault, bl2header,
                         bl2, calls, stdout>>
          /\ (SmcRegionNull => smc' = Unbound)]_vars

C5_Witness ==
    /\ pc = "done"
    /\ SmcRegionNull
    /\ ~smc.bound
    /\ keyvault.bound
    /\ bl2.bound

\* C6: at the end of the load the section table holds every object that was
\* created: the SMC, the keyvault and each bootloader stage.
C6_SectionTableComplete ==
    pc = "done" =>
        /\ smc.bound => "smc" \in Range(nandsections)
        /\ keyvault.bound => "keyvault" \in Range(nandsections)
        /\ bl2.bound => "bl2" \in Range(nandsections)
        /\ bl3.bound => "bl3" \in Range(nandsections)
        /\ bl4.bound => "bl4" \in Range(nandsections)
        /\ bl5.bound => "bl5" \in Range(nandsections)

BsRequested == Len(argv) > 2 /\ argv[3] = "-bs"

BsSupplied == {argv[i] : i \in 4..Len(argv)}

\* C7: a -bs build that lacks a required section ends with a
\* missing-required-section error and writes no output.
C7_BuildRequiresSections ==
    (pc \in Terminal /\ BsRequested /\ ~(RequiredSections \subseteq BsSupplied))
        => (exc = "MissingRequiredSection" /\ written = <<>>)

KeyedBeforeDecrypt ==
    \A i \in 1..Len(calls) :
        calls[i][2] = "decrypt" =>
            \E j \in 1..(i - 1) : calls[j] = <<calls[i][1], "updateKey">>

DecryptLogged(bl, id) ==
    (bl.bound /\ bl.decrypted) => <<id, "decrypt">> \in Range(calls)

\* C8: BL2 is keyed from the root secret alone, BL3 always from 16 zero
\* bytes, BL4 from BL3's key and BL5 from BL4's key; a stage is keyed before
\* it is decrypted.
C8_KeyChaining ==
    /\ (bl2.bound /\ bl2.decrypted) => bl2.keyin = SECRET_1BL
    /\ (bl3.bound /\ bl3.decrypted) => bl3.keyin = ZeroKey
    /\ (bl4.bound /\ bl4.decrypted)
          => (bl3.bound /\ bl3.decrypted /\ bl4.keyin = bl3.key)
    /\ (bl5.bound /\ bl5.decrypted)
          => (bl4.bound /\ bl4.decrypted /\ bl5.keyin = bl4.key)
    /\ DecryptLogged(bl2, "bl2") /\ DecryptLogged(bl3, "bl3")
    /\ DecryptLogged(bl4, "bl4") /\ DecryptLogged(bl5, "bl5")
    /\ KeyedBeforeDecrypt

C8_Witness ==
    /\ pc = "done"
    /\ bl2.bound /\ bl3.bound /\ bl4.bound /\ bl5.bound
    /\ bl2.decrypted /\ bl3.decrypted /\ bl4.decrypted /\ bl5.decrypted
    /\ bl2.key # ZeroKey
    /\ bl3.keyin = ZeroKey

\* the stage-5 block has run
Stage5Ran ==
    \/ pc \in {"output", "done"}
    \/ (pc = "crashed" /\ excvar \in {"bl4header", "bl4"})

\* the record at the stage-5 offset is present: header and data not null
Stage5Present ==
    /\ bl4header.bound
    /\ LET off == bl4header.offset + bl4header.length
           hd == Read(image, off, HEADER_SIZE)
       IN  /\ ~AllZero(hd)
           /\ ~AllZero(Read(image, off, BootloaderHeader(hd, off).length))

Stage5Looked ==
    Stage5Ran /\ imagetype \in {"Devkit", "Shadowboot"} /\ bl4header.bound

RetailStopsAtStage4 ==
    (imagetype = "Retail" /\ pc \in {"output", "done"}) =>
        /\ ~bl5.bound /\ ~bl5header.bound
        /\ "bl5" \notin Range(nandsections)
        /\ Len(nandsections) <= 4

Stage5Appended ==
    Stage5Looked =>
        IF Stage5Present
        THEN /\ bl5.bound
             /\ bl5.header.offset = bl4header.offset + bl4header.length
             /\ nandsections[Len(nandsections)] = "bl5"
        ELSE ~bl5.bound /\ "bl5" \notin Range(nandsections)

C10_FlavorDetermined ==
    /\ pc = "bl5" => imagetype \in ImageType
    /\ excvar # "imagetype"

====
